---- MODULE Spec2Model ----
(***************************************************************************)
(* CommandStation-EX: the RingStream circular byte buffer (RingStream.cpp) *)
(* and the Display row multiplexer (Display.cpp).  The two components      *)
(* share no state; each has its own specifications, in which the other     *)
(* component rests in its constructed state: SpecRing for the RingStream;  *)
(* SpecDisplay for the Display, SpecCover for its continuous scroll mode   *)
(* with the runs of passes recorded, SpecScenario for five rows of text on *)
(* two slots under the row scroll mode, SpecRows for the row writers.      *)
(***************************************************************************)
EXTENDS Integers, Sequences, FiniteSets, TLC

(***************************************************************************)
(* Bounds of the model.                                                    *)
(***************************************************************************)
\* Largest capacity a RingStream is constructed with.
MaxLen == 4
\* Byte values are 0..MaxByte (0 is the terminator count() looks for).
MaxByte == 2
\* Number of write()/read() calls made on the RingStream.
MaxCalls == 5

\* Logical rows of the Display that SpecDisplay is built with (the build
\* constant MAX_CHARACTER_ROWS of Display.h, scaled down).
MaxRows == 3
\* Characters per logical row: MAX_CHARACTER_COLS of Display.h, scaled down.
MAX_CHARACTER_COLS == 2
\* Minimum time between two passes: DISPLAY_SCROLL_TIME of Display.h, in
\* clock ticks of the model.
DISPLAY_SCROLL_TIME == 1
\* The "no row yet" value of rowFirst and rowNext: no valid row index.
ROW_INITIAL == 255
\* Largest number of physical slots (screen lines) a device reports.
MaxSlots == 2

Byte == 0..MaxByte

(***************************************************************************)
(* RingStream: fields, then the history of the calls made so far.          *)
(***************************************************************************)
VARIABLES
  _len,          \* capacity
  _buffer,       \* byte storage, 0 .. _len-1
  _pos_write,
  _pos_read,
  _overflow,
  ringPc,        \* "idle", or "hung" once a call has entered an endless loop
  lastCall,      \* the last write()/read(): [op, arg, ret, fresh, before]
  prevCall,      \* the write()/read() before it
  countRet,      \* result of count() if it was the last call, else NoCount
  beforeCount,   \* the fields as they were when count() was called, if it
                 \* was the last call, else <<>>
  accepted,      \* bytes whose write() returned 1, in order
  got,           \* bytes returned by read(), in order
  streak,        \* consecutive write() calls since the buffer was empty
  nCalls

ringVars == <<_len, _buffer, _pos_write, _pos_read, _overflow, ringPc,
              lastCall, prevCall, countRet, beforeCount, accepted, got, streak,
              nCalls>>

(***************************************************************************)
(* Display: configuration, fields, then the history of the calls.          *)
(***************************************************************************)
VARIABLES
  SCROLLMODE,           \* 0 continuous, 1 by page, 2 by row (fixed at build)
  MAX_CHARACTER_ROWS,   \* logical rows (fixed at build)
  numCharacterRows,     \* physical slots, from the device driver
  numCharacterColumns,  \* physical columns, from the device driver
  rowBuffer,            \* rowBuffer[row][col], col in 0..MAX_CHARACTER_COLS
  hotRow,
  hotCol,
  rowFirst,
  rowNext,
  slot,
  bufferPointer,        \* NullPtr, or an index into buffer
  buffer,               \* the line being sent to the current slot
  charIndex,
  noMoreRowsToDisplay,
  elapsed,              \* millis() - lastScrollTime, up to DISPLAY_SCROLL_TIME
  corrupt,              \* a store went outside rowBuffer
  displayPc,            \* "idle", or "hung" once a call has entered an endless loop
  lastOp,               \* "loop2", "refresh" or "other": the last Display call
  ops,                  \* device operations issued by the last loop2 call
  shown,                \* rows staged so far in the pass in progress
  lastShown,            \* rows staged by the last completed pass; <<>> if a
                        \* row was changed during that pass or since
  lastForced,           \* the last completed pass was completed by loop2(true)
  dirty,                \* a row was changed while the pass in progress was
                        \* under way
  passDone              \* the last call completed a pass

displayVars == <<SCROLLMODE, MAX_CHARACTER_ROWS, numCharacterRows,
                 numCharacterColumns, rowBuffer, hotRow, hotCol,
                 rowFirst, rowNext, slot, bufferPointer, buffer, charIndex,
                 noMoreRowsToDisplay, elapsed, corrupt, displayPc, lastOp,
                 ops, shown, lastShown, lastForced, dirty, passDone>>

\* Kept by SpecCover only: the rows shown by a run of passes over unchanged
\* rows.  A run starts with a completed pass and goes on with the passes that
\* loop2(false) completes (cover, runLen); a forced run is made of passes
\* completed by loop2(true) one after the other, the clock having moved on
\* before each of them but the first (fcover, frun).
VARIABLES cover, runLen, fcover, frun

coverVars == <<cover, runLen, fcover, frun>>

\* Kept by SpecRows only: the history of the row writers.
VARIABLES
  written,   \* characters for which _write returned 1 since the last _setRow
  selected,  \* the argument of the last _setRow if no other call than
             \* _write was made since, else NoRow
  lastWrite  \* what the last call returned if it was _write, else 0

rowVars == <<written, selected, lastWrite>>

vars == <<ringVars, displayVars, coverVars, rowVars>>

NoCount == -1
NoCall == [op |-> "none", arg |-> 0, ret |-> 0, fresh |-> FALSE, before |-> <<>>]

\* The buffer holds no unread byte and is not in overflow.
Fresh == _pos_read = _pos_write /\ ~_overflow

\* RingStream::RingStream(len): only cell 0 of the new storage is set, the
\* other cells hold whatever the allocation left there.
RingStream_ctor ==
  /\ _len \in 1..MaxLen
  /\ _buffer \in [0..(_len - 1) -> Byte]
  /\ _buffer[0] = 0
  /\ _pos_write = 0
  /\ _pos_read = 0
  /\ _overflow = FALSE

RingHistoryInit ==
  /\ ringPc = "idle"
  /\ lastCall = NoCall
  /\ prevCall = NoCall
  /\ countRet = NoCount
  /\ beforeCount = <<>>
  /\ accepted = <<>>
  /\ got = <<>>
  /\ streak = 0
  /\ nCalls = 0

\* "if (pos >= _len) pos = 0" after an increment.
Wrap(p) == IF p >= _len THEN 0 ELSE p

\* The history after a write() or read() that returned ret.
LogCall(op, arg, ret) ==
  /\ prevCall' = lastCall
  /\ lastCall' = [op |-> op, arg |-> arg, ret |-> ret, fresh |-> Fresh,
                  before |-> beforeCount]
  /\ countRet' = NoCount
  /\ beforeCount' = <<>>
  /\ nCalls' = nCalls + 1
  /\ accepted' = IF op = "write" /\ ret = 1 THEN Append(accepted, arg) ELSE accepted
  /\ got' = IF op = "read" /\ ret # -1 THEN Append(got, ret) ELSE got
  /\ streak' = IF op = "write"
               THEN (IF streak >= 0 /\ streak < _len THEN streak + 1 ELSE -1)
               ELSE (IF _pos_read' = _pos_write' /\ ~_overflow' THEN 0 ELSE -1)

\* The write cursor after storing a byte.
write_advance == Wrap(_pos_write + 1)

\* "if (_pos_write==_pos_read)", tested after the cursor has moved.
write_collides_stale == _pos_write = _pos_read
write_collides == write_advance = _pos_read

\* "if (_overflow) return 0;"
write_rejected_never == FALSE
write_rejected == _overflow

\* size_t RingStream::write(uint8_t byte)
write(byte) ==
  /\ ringPc = "idle"
  /\ nCalls < MaxCalls
  /\ UNCHANGED <<_len, _pos_read, ringPc>>
  /\ IF write_rejected
     THEN /\ UNCHANGED <<_buffer, _pos_write, _overflow>>
          /\ LogCall("write", byte, 0)
     ELSE /\ _buffer' = [_buffer EXCEPT ![_pos_write] = byte]
          /\ _pos_write' = write_advance
          /\ IF write_collides
             THEN _overflow' = TRUE /\ LogCall("write", byte, 0)
             ELSE UNCHANGED _overflow /\ LogCall("write", byte, 1)

\* The read cursor after taking a byte.
read_advance_stuck == _pos_read
read_advance == Wrap(_pos_read + 1)

\* int RingStream::read()
read ==
  /\ ringPc = "idle"
  /\ nCalls < MaxCalls
  /\ UNCHANGED <<_len, _buffer, _pos_write, ringPc>>
  /\ IF _pos_read = _pos_write
     THEN /\ UNCHANGED <<_pos_read, _overflow>>
          /\ LogCall("read", 0, -1)
     ELSE /\ _pos_read' = read_advance
          /\ _overflow' = FALSE
          /\ LogCall("read", 0, _buffer[_pos_read])

\* The while loop of count(): the result, or Diverges when the scan comes back
\* to a cell it has already tested (no cell it passes over holds 0, and no
\* call changes the buffer meanwhile, so it goes round for ever).
Diverges == -2
RECURSIVE count_loop(_, _, _)
count_loop(peek, counter, visited) ==
  IF _buffer[peek] = 0 THEN counter
  ELSE IF Wrap(peek + 1) \in visited THEN Diverges
  ELSE count_loop(Wrap(peek + 1), counter + 1, visited \cup {Wrap(peek + 1)})

\* "int peek=_pos_read;": the scan moves a copy, the read cursor stays.
count_cursor_consumed == Wrap(_pos_read + 1)
count_cursor == _pos_read

\* The fields of the RingStream that its clients can observe through calls.
RingFields == <<_buffer, _pos_write, _pos_read, _overflow>>

\* int RingStream::count()
count ==
  /\ ringPc = "idle"
  /\ LET r == count_loop(_pos_read, 0, {_pos_read}) IN
       IF r = Diverges
       THEN ringPc' = "hung" /\ countRet' = NoCount
       ELSE ringPc' = ringPc /\ countRet' = r
  /\ _pos_read' = count_cursor
  /\ beforeCount' = RingFields
  /\ UNCHANGED <<_len, _buffer, _pos_write, _overflow,
                 lastCall, prevCall, accepted, got, streak, nCalls>>

RingInit == RingStream_ctor /\ RingHistoryInit

(***************************************************************************)
(* Display.                                                                *)
(***************************************************************************)
NullPtr == -1
\* In selected: no _setRow call is being followed.
NoRow == -1
\* In shown/lastShown: the slot was given a blank line.
BlankLine == -1
\* Characters the row writers send (never the terminator 0).
Glyph == {120}

Rows == 0..(MAX_CHARACTER_ROWS - 1)
Cols == 0..MAX_CHARACTER_COLS

\* "Blank rows of text are ignored": a row is blank iff its first character is
\* the terminator.
NonBlankRows == {r \in Rows : rowBuffer[r][0] # 0}
\* N non-blank rows.
N == Cardinality(NonBlankRows)

\* Display::Display(deviceDriver): the geometry comes from the device, every
\* row is made blank.
Display_ctor ==
  /\ SCROLLMODE \in {0, 1, 2}
  /\ numCharacterRows \in 1..MaxSlots
  /\ numCharacterColumns \in 1..MAX_CHARACTER_COLS
  /\ rowBuffer = [r \in Rows |-> [c \in Cols |-> 0]]

\* The other fields as a new Display holds them (member initialisers of
\* Display.h): scroll cursors at the sentinel, nothing staged.
Display_render ==
  /\ rowFirst = ROW_INITIAL
  /\ rowNext = ROW_INITIAL
  /\ slot = 0
  /\ bufferPointer = NullPtr
  /\ buffer = [c \in Cols |-> 0]
  /\ charIndex = 0
  /\ noMoreRowsToDisplay = FALSE
  /\ elapsed = 0
  /\ corrupt = FALSE

Display_fields ==
  /\ hotRow = 0
  /\ hotCol = 0
  /\ Display_render

DisplayHistoryInit ==
  /\ displayPc = "idle"
  /\ lastOp = "other"
  /\ ops = <<>>
  /\ shown = <<>>
  /\ lastShown = <<>>
  /\ lastForced = FALSE
  /\ dirty = FALSE
  /\ passDone = FALSE
  /\ cover = {}
  /\ runLen = 0
  /\ fcover = {}
  /\ frun = 0
  /\ written = <<>>
  /\ selected = NoRow
  /\ lastWrite = 0

\* A pass is under way: some slot of it has been staged.
InPass == slot # 0 \/ bufferPointer # NullPtr

\* The history after a call that is not loop2.
LogOther(changedRows) ==
  /\ lastOp' = "other"
  /\ ops' = <<>>
  /\ lastShown' = IF changedRows THEN <<>> ELSE lastShown
  /\ lastForced' = IF changedRows THEN FALSE ELSE lastForced
  /\ dirty' = (dirty \/ (changedRows /\ InPass))
  /\ passDone' = FALSE
  /\ UNCHANGED shown

\* void Display::_clear()
_clear ==
  /\ displayPc = "idle"
  /\ rowBuffer' = [r \in Rows |-> [rowBuffer[r] EXCEPT ![0] = 0]]
  /\ LogOther(TRUE)
  /\ UNCHANGED <<SCROLLMODE, MAX_CHARACTER_ROWS, numCharacterRows,
                 numCharacterColumns, hotRow, hotCol, rowFirst,
                 rowNext, slot, bufferPointer, buffer, charIndex,
                 noMoreRowsToDisplay, elapsed, corrupt, displayPc>>

\* void Display::_setRow(uint8_t line): no test of line against the number of
\* rows; with line out of range the store goes outside rowBuffer.
_setRow(line) ==
  /\ displayPc = "idle"
  /\ hotRow' = line
  /\ hotCol' = 0
  /\ IF line \in Rows
     THEN /\ rowBuffer' = [rowBuffer EXCEPT ![line][0] = 0]
          /\ UNCHANGED corrupt
     ELSE /\ corrupt' = TRUE
          /\ UNCHANGED rowBuffer
  /\ LogOther(line \in Rows)
  /\ UNCHANGED <<SCROLLMODE, MAX_CHARACTER_ROWS, numCharacterRows,
                 numCharacterColumns, rowFirst, rowNext, slot,
                 bufferPointer, buffer, charIndex, noMoreRowsToDisplay,
                 elapsed, displayPc>>

\* "if (hotRow >= MAX_CHARACTER_ROWS || hotCol >= MAX_CHARACTER_COLS) return -1;"
_write_rejected == hotRow >= MAX_CHARACTER_ROWS \/ hotCol >= MAX_CHARACTER_COLS

\* What _write returns (-1 stands for (size_t)-1).
_write_ret == IF _write_rejected THEN -1 ELSE 1

\* The two stores of _write: the character, then the terminator after it.
_write_store_unterminated(b) == [rowBuffer EXCEPT ![hotRow][hotCol] = b]
_write_store(b) ==
  [rowBuffer EXCEPT ![hotRow][hotCol] = b, ![hotRow][hotCol + 1] = 0]

\* size_t Display::_write(uint8_t b)
_write(b) ==
  /\ displayPc = "idle"
  /\ IF _write_rejected
     THEN /\ UNCHANGED <<rowBuffer, hotCol>>
          /\ LogOther(FALSE)
     ELSE /\ rowBuffer' = _write_store(b)
          /\ hotCol' = hotCol + 1
          /\ LogOther(TRUE)
  /\ UNCHANGED <<SCROLLMODE, MAX_CHARACTER_ROWS, numCharacterRows,
                 numCharacterColumns, hotRow, rowFirst, rowNext, slot,
                 bufferPointer, buffer, charIndex, noMoreRowsToDisplay,
                 elapsed, corrupt, displayPc>>

\* The clock moves on between two calls.  millis() and lastScrollTime are
\* used only in "currentMillis - lastScrollTime < DISPLAY_SCROLL_TIME": the
\* difference is kept, and every value from DISPLAY_SCROLL_TIME on is the
\* same to the test (the clock does not wrap within the model).
Tick ==
  /\ displayPc = "idle"
  /\ elapsed < DISPLAY_SCROLL_TIME
  /\ elapsed' = elapsed + 1
  /\ LogOther(FALSE)
  /\ UNCHANGED <<SCROLLMODE, MAX_CHARACTER_ROWS, numCharacterRows,
                 numCharacterColumns, rowBuffer, hotRow, hotCol,
                 rowFirst, rowNext, slot, bufferPointer, buffer, charIndex,
                 noMoreRowsToDisplay, corrupt, displayPc>>

\* The fields loop2 and findNextNonBlankRow work on, as a record, with what
\* the call has done so far: the device operations issued (ops), the rows
\* staged (shown), whether the last search found a row (found), whether the
\* pass was completed and loop2 returned from inside its loop (ret), whether
\* a loop goes round for ever (hang).
Fields ==
  [rowFirst |-> rowFirst, rowNext |-> rowNext, slot |-> slot,
   bufferPointer |-> bufferPointer, buffer |-> buffer,
   charIndex |-> charIndex, noMoreRowsToDisplay |-> noMoreRowsToDisplay,
   ops |-> <<>>, shown |-> shown, found |-> FALSE, ret |-> FALSE,
   hang |-> FALSE]

\* "if (rowNext == rowFirst)": the search is back at the first row shown.
BackAtFirst_stale(d, row) == row = d.rowNext
BackAtFirst(d, row) == row = d.rowFirst

\* bool Display::findNextNonBlankRow(): the while loop.  visited holds the
\* values rowNext had at the head of the loop; rowFirst, the rows and the
\* flag do not change while it runs, so a value met again means that it
\* goes round for ever.
RECURSIVE findNextNonBlankRow_loop(_, _)
findNextNonBlankRow_loop(d, visited) ==
  IF d.noMoreRowsToDisplay THEN [d EXCEPT !.found = FALSE]
  ELSE
    LET next == IF d.rowNext = ROW_INITIAL THEN 0 ELSE d.rowNext + 1 IN
    IF SCROLLMODE = 1
    THEN IF next >= MAX_CHARACTER_ROWS
         THEN [d EXCEPT !.rowNext = ROW_INITIAL,
                        !.noMoreRowsToDisplay = TRUE, !.found = FALSE]
         ELSE IF rowBuffer[next][0] # 0
         THEN [d EXCEPT !.rowNext = next, !.found = TRUE]
         ELSE findNextNonBlankRow_loop([d EXCEPT !.rowNext = next], visited)
    ELSE
      LET row == IF next >= MAX_CHARACTER_ROWS THEN 0 ELSE next IN
      IF BackAtFirst(d, row)
      THEN [d EXCEPT !.rowNext = row,
                     !.noMoreRowsToDisplay = TRUE, !.found = FALSE]
      ELSE IF rowBuffer[row][0] # 0
      THEN [d EXCEPT !.rowNext = row, !.found = TRUE]
      ELSE IF row \in visited
      THEN [d EXCEPT !.rowNext = row, !.hang = TRUE]
      ELSE findNextNonBlankRow_loop([d EXCEPT !.rowNext = row],
                                    visited \cup {row})

findNextNonBlankRow(d) == findNextNonBlankRow_loop(d, {})

\* loop2, bufferPointer == 0: choose the line for the slot and position the
\* device on the slot.
loop2_stage(d) ==
  LET anchored == IF d.rowFirst = ROW_INITIAL
                  THEN [d EXCEPT !.rowFirst = d.rowNext] ELSE d
      f == findNextNonBlankRow(anchored)
  IN IF f.hang THEN f
     ELSE [f EXCEPT
             !.buffer = IF f.found THEN rowBuffer[f.rowNext]
                        ELSE [f.buffer EXCEPT ![0] = 0],
             !.ops = Append(f.ops, [op |-> "setRowNative", arg |-> f.slot]),
             !.shown = Append(f.shown, IF f.found THEN f.rowNext ELSE BlankLine),
             !.charIndex = 0,
             !.bufferPointer = 0]

\* loop2, "Last slot on screen written": ready for the next screen update.
loop2_endOfPass_fromTop(d) ==
  [d EXCEPT !.noMoreRowsToDisplay = FALSE, !.slot = 0,
            !.rowFirst = ROW_INITIAL, !.rowNext = ROW_INITIAL, !.ret = TRUE]
loop2_endOfPass(d) ==
  LET restart == IF SCROLLMODE = 2 /\ ~d.noMoreRowsToDisplay
                 THEN findNextNonBlankRow([d EXCEPT !.rowNext = d.rowFirst])
                 ELSE d
  IN IF restart.hang THEN restart
     ELSE [restart EXCEPT !.noMoreRowsToDisplay = FALSE, !.slot = 0,
                          !.rowFirst = ROW_INITIAL, !.ret = TRUE]

\* loop2, bufferPointer != 0: send the next character of the line, or a space
\* once the line is exhausted; after MAX_CHARACTER_COLS of them the slot is
\* complete.
loop2_send(d) ==
  LET ch == d.buffer[d.bufferPointer]
      sent == [d EXCEPT
                 !.ops = Append(d.ops, [op |-> "writeNative",
                                        arg |-> IF ch # 0 THEN ch ELSE 32]),
                 !.bufferPointer = IF ch # 0 THEN d.bufferPointer + 1
                                   ELSE d.bufferPointer,
                 !.charIndex = d.charIndex + 1]
  IN IF sent.charIndex >= MAX_CHARACTER_COLS
     THEN LET nextSlot == [sent EXCEPT !.bufferPointer = NullPtr,
                                       !.slot = sent.slot + 1]
          IN IF nextSlot.slot >= numCharacterRows
             THEN loop2_endOfPass(nextSlot)
             ELSE nextSlot
     ELSE sent

\* One turn of the do ... while (force) loop of loop2.
loop2_body_fallthrough(d) ==
  IF d.bufferPointer = NullPtr
  THEN (IF loop2_stage(d).hang THEN loop2_stage(d) ELSE loop2_send(loop2_stage(d)))
  ELSE loop2_send(d)
loop2_body(d) ==
  IF d.bufferPointer = NullPtr THEN loop2_stage(d) ELSE loop2_send(d)

\* do { ... } while (force): with force the body is repeated until the pass
\* is complete and loop2 returns from inside the loop.
RECURSIVE loop2_while(_, _)
loop2_while(d, force) ==
  LET b == loop2_body(d) IN
  IF b.hang \/ b.ret \/ ~force THEN b ELSE loop2_while(b, force)

\* "force full screen update from the beginning."
loop2_reset_keepRowNext(d) ==
  [d EXCEPT !.rowFirst = ROW_INITIAL,
            !.bufferPointer = NullPtr, !.noMoreRowsToDisplay = FALSE,
            !.slot = 0, !.shown = <<>>]
loop2_reset(d) ==
  [d EXCEPT !.rowFirst = ROW_INITIAL, !.rowNext = ROW_INITIAL,
            !.bufferPointer = NullPtr, !.noMoreRowsToDisplay = FALSE,
            !.slot = 0, !.shown = <<>>]

\* "See if we're in the time between updates"
Throttled == elapsed < DISPLAY_SCROLL_TIME

\* "lastScrollTime = currentMillis;" at the end of a pass: the time elapsed
\* since lastScrollTime after the call.
loop2_lastScrollTime_each(d) == 0
loop2_lastScrollTime(d) == IF d.ret THEN 0 ELSE elapsed

\* Display *Display::loop2(bool force)
loop2(force) ==
  /\ displayPc = "idle"
  /\ lastOp' = IF force THEN "refresh" ELSE "loop2"
  /\ UNCHANGED <<SCROLLMODE, MAX_CHARACTER_ROWS, numCharacterRows,
                 numCharacterColumns, rowBuffer, hotRow, hotCol, corrupt>>
  /\ IF ~force /\ Throttled
     THEN /\ ops' = <<>>
          /\ UNCHANGED <<rowFirst, rowNext, slot, bufferPointer, buffer,
                         charIndex, noMoreRowsToDisplay, elapsed, displayPc,
                         shown, lastShown, lastForced, dirty>>
          /\ passDone' = FALSE
     ELSE \E d \in {loop2_while(IF force THEN loop2_reset(Fields) ELSE Fields,
                                force)} :
             /\ rowFirst' = d.rowFirst
             /\ rowNext' = d.rowNext
             /\ slot' = d.slot
             /\ bufferPointer' = d.bufferPointer
             /\ buffer' = d.buffer
             /\ charIndex' = d.charIndex
             /\ noMoreRowsToDisplay' = d.noMoreRowsToDisplay
             /\ ops' = d.ops
             /\ displayPc' = IF d.hang THEN "hung" ELSE "idle"
             /\ elapsed' = loop2_lastScrollTime(d)
             /\ shown' = IF d.ret THEN <<>> ELSE d.shown
             /\ lastShown' = IF ~d.ret THEN lastShown
                             ELSE IF dirty /\ ~force THEN <<>> ELSE d.shown
             /\ lastForced' = IF d.ret THEN force ELSE lastForced
             /\ dirty' = IF d.ret \/ force THEN FALSE ELSE dirty
             /\ passDone' = d.ret

\* void Display::_refresh()
_refresh == loop2(TRUE)

\* void Display::_displayLoop(), when the device is not busy.
_displayLoop == loop2(FALSE)

DisplayInit ==
  /\ MAX_CHARACTER_ROWS = MaxRows
  /\ Display_ctor /\ Display_fields /\ DisplayHistoryInit

\* Each component at rest while the other one is exercised.
RingAtRest == RingInit /\ _len = 1
DisplayAtRest ==
  DisplayInit /\ SCROLLMODE = 0 /\ numCharacterRows = 1
              /\ numCharacterColumns = MAX_CHARACTER_COLS

NextRing ==
  \/ \E b \in Byte : write(b) /\ UNCHANGED <<displayVars, coverVars, rowVars>>
  \/ read /\ UNCHANGED <<displayVars, coverVars, rowVars>>
  \/ count /\ UNCHANGED <<displayVars, coverVars, rowVars>>

InitRing == RingInit /\ DisplayAtRest

SpecRing == InitRing /\ [][NextRing]_vars

\* The rendering specification.  The row writers give a row at most one
\* character.
NextDisplay ==
  \/ _refresh /\ UNCHANGED <<ringVars, coverVars, rowVars>>
  \/ _displayLoop /\ UNCHANGED <<ringVars, coverVars, rowVars>>
  \/ \E line \in Rows : _setRow(line) /\ UNCHANGED <<ringVars, coverVars, rowVars>>
  \/ \E b \in Glyph : hotCol = 0 /\ _write(b)
                       /\ UNCHANGED <<ringVars, coverVars, rowVars>>
  \/ _clear /\ UNCHANGED <<ringVars, coverVars, rowVars>>
  \/ Tick /\ UNCHANGED <<ringVars, coverVars, rowVars>>

InitDisplay == DisplayInit /\ RingAtRest

SpecDisplay == InitDisplay /\ [][NextDisplay]_vars

\* The rows a pass staged.
ShownRows(pass) == {pass[i] : i \in 1..Len(pass)} \ {BlankLine}

Min(a, b) == IF a < b THEN a ELSE b

\* The runs of passes after a step of the Display.
TrackCover ==
  IF passDone'
  THEN IF lastShown' = <<>>
       THEN cover' = {} /\ runLen' = 0 /\ fcover' = {} /\ frun' = 0
       ELSE IF lastForced'
       THEN /\ cover' = ShownRows(lastShown')
            /\ runLen' = 1
            /\ IF elapsed > 0
               THEN /\ fcover' = fcover \cup ShownRows(lastShown')
                    /\ frun' = Min(frun + 1, MAX_CHARACTER_ROWS)
               ELSE /\ fcover' = ShownRows(lastShown')
                    /\ frun' = 1
       ELSE /\ cover' = cover \cup ShownRows(lastShown')
            /\ runLen' = Min(runLen + 1, MAX_CHARACTER_ROWS)
            /\ fcover' = {}
            /\ frun' = 0
  ELSE IF lastShown' = <<>>
       THEN cover' = {} /\ runLen' = 0 /\ fcover' = {} /\ frun' = 0
       ELSE UNCHANGED coverVars

\* The continuous scroll policy with the runs of passes recorded.
NextCover ==
  \/ _refresh /\ TrackCover /\ UNCHANGED <<ringVars, rowVars>>
  \/ _displayLoop /\ TrackCover /\ UNCHANGED <<ringVars, rowVars>>
  \/ \E line \in Rows : _setRow(line) /\ TrackCover /\ UNCHANGED <<ringVars, rowVars>>
  \/ \E b \in Glyph : hotCol = 0 /\ _write(b) /\ TrackCover
                       /\ UNCHANGED <<ringVars, rowVars>>
  \/ _clear /\ TrackCover /\ UNCHANGED <<ringVars, rowVars>>
  \/ Tick /\ TrackCover /\ UNCHANGED <<ringVars, rowVars>>

InitCover == InitDisplay /\ SCROLLMODE = 0

SpecCover == InitCover /\ [][NextCover]_vars

\* The scenario of five rows of text A, B, C, D, E (in the order of their row
\* indices) on a device of two slots under SCROLLMODE 2: the Display after
\* the five rows were written one after the other, built with five rows or
\* with one more row that stays blank.
ScenarioNames == <<"A", "B", "C", "D", "E">>

InitScenario ==
  /\ MAX_CHARACTER_ROWS \in {Len(ScenarioNames), Len(ScenarioNames) + 1}
  /\ SCROLLMODE = 2
  /\ numCharacterRows = 2
  /\ numCharacterColumns = MAX_CHARACTER_COLS
  /\ \E S \in SUBSET Rows :
       /\ Cardinality(S) = Len(ScenarioNames)
       /\ rowBuffer = [r \in Rows |->
                         [c \in Cols |-> IF r \in S /\ c = 0 THEN 120 ELSE 0]]
       /\ hotRow = CHOOSE r \in S : \A q \in S : q <= r
  /\ hotCol = 1
  /\ Display_render /\ DisplayHistoryInit
  /\ RingAtRest

NextScenario ==
  \/ _refresh /\ TrackCover /\ UNCHANGED <<ringVars, rowVars>>
  \/ _displayLoop /\ TrackCover /\ UNCHANGED <<ringVars, rowVars>>
  \/ Tick /\ TrackCover /\ UNCHANGED <<ringVars, rowVars>>

SpecScenario == InitScenario /\ [][NextScenario]_vars

\* The row writers alone, with their history: _setRow with every row index
\* up to one past the last row, _write with two different characters and no
\* limit on the number of calls, on a Display built with MaxRows - 1 rows.
RowGlyph == {120, 121}

TrackSetRow(line) == written' = <<>> /\ selected' = line /\ lastWrite' = 0

TrackWrite(b) ==
  /\ lastWrite' = _write_ret
  /\ written' = IF _write_ret = 1 THEN Append(written, b) ELSE written
  /\ UNCHANGED selected

TrackClear == written' = <<>> /\ selected' = NoRow /\ lastWrite' = 0

NextRows ==
  \/ \E line \in 0..MAX_CHARACTER_ROWS :
        _setRow(line) /\ TrackSetRow(line) /\ UNCHANGED <<ringVars, coverVars>>
  \/ \E b \in RowGlyph : _write(b) /\ TrackWrite(b) /\ UNCHANGED <<ringVars, coverVars>>
  \/ _clear /\ TrackClear /\ UNCHANGED <<ringVars, coverVars>>

InitRows ==
  /\ MAX_CHARACTER_ROWS = MaxRows - 1
  /\ Display_ctor /\ Display_fields /\ DisplayHistoryInit
  /\ SCROLLMODE = 0 /\ numCharacterRows = 1
  /\ numCharacterColumns = MAX_CHARACTER_COLS
  /\ RingAtRest

SpecRows == InitRows /\ [][NextRows]_vars

(***************************************************************************)
(* RingStream: derived quantities used by the properties.                  *)
(***************************************************************************)
\* Number of read() calls that would return a byte from here: read() gives a
\* byte and advances while the read cursor differs from the write cursor.
RECURSIVE ReadableFrom(_, _)
ReadableFrom(r, n) ==
  IF r = _pos_write \/ n > _len THEN n ELSE ReadableFrom(Wrap(r + 1), n + 1)
Readable == ReadableFrom(_pos_read, 0)

IsPrefix(s, t) == Len(s) <= Len(t) /\ \A i \in 1..Len(s) : s[i] = t[i]

(***************************************************************************)
(* Display: the properties.                                                *)
(***************************************************************************)
\* V physical slots.
V == numCharacterRows

\* The operations of the last call are those of one whole pass: for each slot
\* in turn, the position command for it and then MAX_CHARACTER_COLS
\* character writes.
FullPassWritten ==
  /\ Len(ops) = V * (MAX_CHARACTER_COLS + 1)
  /\ \A s \in 0..(V - 1) :
       /\ ops[s * (MAX_CHARACTER_COLS + 1) + 1] = [op |-> "setRowNative", arg |-> s]
       /\ \A k \in 2..(MAX_CHARACTER_COLS + 1) :
            ops[s * (MAX_CHARACTER_COLS + 1) + k].op = "writeNative"

AtPassBoundary ==
  /\ slot = 0
  /\ bufferPointer = NullPtr
  /\ shown = <<>>
  /\ rowFirst = ROW_INITIAL
  /\ ~noMoreRowsToDisplay

\* Every non-blank row is in exactly one slot of the pass, the other slots
\* hold a blank line.
EachRowOnce(pass) ==
  /\ Len(pass) = V
  /\ \A i \in 1..Len(pass) : pass[i] \in NonBlankRows \cup {BlankLine}
  /\ \A r \in NonBlankRows : Cardinality({i \in 1..Len(pass) : pass[i] = r}) = 1

\* No row is in two slots of the pass.
NoRowTwice(pass) ==
  \A i, j \in 1..Len(pass) : (i < j /\ pass[i] = pass[j]) => pass[i] = BlankLine

\* After a blank line the pass holds only blank lines.
BlankToTheEnd(pass) ==
  \A i, j \in 1..Len(pass) : (i < j /\ pass[i] = BlankLine) => pass[j] = BlankLine

\* C2: a loop2(false) call issues at most one device operation.
C2_OneOperationPerCall == lastOp = "loop2" => Len(ops) <= 1

\* A loop2(false) call that sent a character of a row, and was not the turn
\* that positions the device.
C2_Witness ==
  /\ lastOp = "loop2"
  /\ ops = <<[op |-> "writeNative", arg |-> 120]>>
  /\ slot = 1

\* C3: loop2(true) returns whatever the rows hold (all blank included), under
\* every scroll mode and from every state; it has then written one whole
\* pass and left the render state at a pass boundary.
C3_ForcedRunsToCompletion ==
  lastOp = "refresh" =>
    /\ displayPc = "idle"
    /\ passDone
    /\ FullPassWritten
    /\ AtPassBoundary

\* What does hold of loop2(true): if it returns, it has written one whole
\* pass and left the render state at a pass boundary; and no call hangs
\* unless every row is blank and the scroll mode is 0 or 2.
ForcedPassWhenItReturns ==
  /\ (lastOp = "refresh" /\ displayPc = "idle") =>
        passDone /\ FullPassWritten /\ AtPassBoundary
  /\ displayPc = "hung" => (N = 0 /\ SCROLLMODE # 1)

\* C4: with N <= V a loop2(true) call stages every non-blank row in exactly
\* one slot and a blank line in every other slot.
C4_ForcedShowsEachRowOnce ==
  (lastOp = "refresh" /\ N <= V) =>
    /\ displayPc = "idle"
    /\ EachRowOnce(lastShown)

\* What does hold: the same whenever the call returns, which it does as soon
\* as one row is non-blank.
ForcedShowsEachRowOnceWhenItReturns ==
  /\ (lastOp = "refresh" /\ N <= V /\ displayPc = "idle") => EachRowOnce(lastShown)
  /\ (lastOp = "refresh" /\ N >= 1) => displayPc = "idle"

\* C5: with N <= V and the rows unchanged, every completed pass shows all the
\* non-blank rows.
C5_NoScrollingWhenAllFit ==
  (lastShown # <<>> /\ N <= V) => ShownRows(lastShown) = NonBlankRows

\* C6 as stated: under the continuous policy with N > V and the rows
\* unchanged, MAX_CHARACTER_ROWS passes one after the other show every
\* non-blank row, be they completed by loop2(false) or by loop2(true) calls
\* with the clock moving on between them.
C6_ContinuousCoverage ==
  (SCROLLMODE = 0 /\ N > V) =>
    /\ runLen >= MAX_CHARACTER_ROWS => NonBlankRows \subseteq cover
    /\ frun >= MAX_CHARACTER_ROWS => NonBlankRows \subseteq fcover

\* C6 amended: under the continuous policy with N > V and the rows unchanged,
\* a completed pass and the passes that loop2(false) completes after it show
\* every non-blank row once there are at least N / V of them (at most N,
\* hence at most MAX_CHARACTER_ROWS).  Passes completed by loop2(true) all
\* start again from the first row.
C6_ContinuousCoverageNotForced ==
  (SCROLLMODE = 0 /\ N > V /\ runLen * V >= N) => NonBlankRows \subseteq cover

\* A run of passes completed by loop2(false) that has shown more rows than
\* the screen has slots.
C6_Witness ==
  /\ SCROLLMODE = 0
  /\ N > V
  /\ V = 2
  /\ ~lastForced
  /\ runLen >= 2
  /\ passDone
  /\ NonBlankRows \subseteq cover

\* C7: under the continuous policy a pass over unchanged rows puts no row in
\* two slots, and once it has staged a blank line (the search is back at the
\* row that started the pass) it stages only blank lines.
C7_DistinctWithinPass ==
  SCROLLMODE = 0 =>
    /\ ~dirty => (NoRowTwice(shown) /\ BlankToTheEnd(shown))
    /\ NoRowTwice(lastShown) /\ BlankToTheEnd(lastShown)

\* A pass completed by loop2(false) that ran out of rows after its first
\* slot.
C7_Witness ==
  /\ SCROLLMODE = 0
  /\ passDone
  /\ ~lastForced
  /\ Len(lastShown) = 2
  /\ lastShown[1] # BlankLine
  /\ lastShown[2] = BlankLine
  /\ N >= 2

\* C14: _setRow with a row index out of range stores nothing, no call stores
\* outside rowBuffer, and a _write with the hot row or the hot column out of
\* bounds stores nothing and returns the failure value.
C14_RowWriteBoundsSafe ==
  [][/\ ~corrupt'
     /\ (selected' # NoRow /\ selected' \notin Rows /\ written' = <<>> /\ lastWrite' = 0)
           => rowBuffer' = rowBuffer
     /\ (_write_rejected /\ lastWrite' # 0) =>
           (lastWrite' = -1 /\ rowBuffer' = rowBuffer)]_vars

\* C15: after _setRow(r), r in range, and k successful _write calls, row r
\* holds the k characters in order and then the terminator, after each of
\* the calls; the calls leave every other row as it was.
C15_RowWriteRoundTrip ==
  [][/\ selected' \in Rows =>
          /\ Len(written') <= MAX_CHARACTER_COLS
          /\ \A i \in 1..Len(written') : rowBuffer'[selected'][i - 1] = written'[i]
          /\ rowBuffer'[selected'][Len(written')] = 0
          /\ \A r \in Rows \ {selected'} : rowBuffer'[r] = rowBuffer[r]
     /\ (selected' \in Rows /\ lastWrite' = -1) => Len(written') = MAX_CHARACTER_COLS]_vars

\* A row that held two characters, selected again and given one other
\* character, while another row holds text.
C15_Witness ==
  /\ selected \in Rows
  /\ Len(written) = 1
  /\ rowBuffer[selected][0] # rowBuffer[selected][1]
  /\ rowBuffer[selected][1] = 0
  /\ \E r \in Rows \ {selected} :
        rowBuffer[r][0] # 0 /\ rowBuffer[r][1] # 0 /\ rowBuffer[r][0] # rowBuffer[r][1]

\* The k-th character (k from 1) the device gets for a slot staged with
\* row: the k-th character of the row if the row has that many, else a space.
SlotChar(row, k) ==
  IF row = BlankLine \/ \E j \in 0..(k - 1) : rowBuffer[row][j] = 0
  THEN 32 ELSE rowBuffer[row][k - 1]

\* out is the output of one whole pass that staged the rows of pass, on a
\* device that is given width characters per slot: for each slot in turn
\* the position command, then width character writes.
PassOutput(out, pass, width) ==
  /\ Len(pass) = V
  /\ Len(out) = V * (width + 1)
  /\ \A s \in 0..(V - 1) :
       /\ out[s * (width + 1) + 1] = [op |-> "setRowNative", arg |-> s]
       /\ \A k \in 1..width :
            out[s * (width + 1) + 1 + k] =
              [op |-> "writeNative", arg |-> SlotChar(pass[s + 1], k)]

\* C19: in every pass each slot gets its position command and then as many
\* character writes as the device has columns (numCharacterColumns), the
\* characters of the staged line first, then spaces.
C19_PerSlotOutput ==
  /\ (lastOp = "refresh" /\ displayPc = "idle") =>
        PassOutput(ops, lastShown, numCharacterColumns)
  /\ (lastOp = "loop2" /\ Len(ops) = 1 /\ ops[1].op = "writeNative") =>
        charIndex \in 1..numCharacterColumns

\* What does hold: each slot gets MAX_CHARACTER_COLS character writes,
\* whatever the number of columns of the device.
PerSlotOutputOfRowWidth ==
  /\ (lastOp = "refresh" /\ displayPc = "idle") =>
        PassOutput(ops, lastShown, MAX_CHARACTER_COLS)
  /\ (lastOp = "loop2" /\ Len(ops) = 1 /\ ops[1].op = "writeNative") =>
        charIndex \in 1..MAX_CHARACTER_COLS

\* The i-th non-blank row in the order of the row indices (i from 1).
NthRow(S, i) == CHOOSE r \in S : Cardinality({q \in S : q < r}) = i - 1

\* The row of the scenario that has the name nm.
ScenarioRow(nm) ==
  NthRow(NonBlankRows, CHOOSE i \in 1..Len(ScenarioNames) : ScenarioNames[i] = nm)

\* C16 as stated: in the scenario, three loop2(true) passes one after the
\* other (the clock moving on between them) show A and B, then C and D, then
\* E and A.
C16_RowPolicyScenario ==
  /\ frun = 1 => lastShown = <<ScenarioRow("A"), ScenarioRow("B")>>
  /\ frun = 2 => lastShown = <<ScenarioRow("C"), ScenarioRow("D")>>
  /\ frun = 3 => lastShown = <<ScenarioRow("E"), ScenarioRow("A")>>

\* C16 amended: in the scenario every loop2(true) pass shows A and B, however
\* many of them are made one after the other.
C16_ForcedPassesShowAB ==
  frun >= 1 => lastShown = <<ScenarioRow("A"), ScenarioRow("B")>>

\* The third of three loop2(true) passes one after the other, on a Display
\* with a blank row among the rows of text.
C16_Witness ==
  /\ frun = 3
  /\ passDone
  /\ lastForced
  /\ N = 5
  /\ ScenarioRow("E") = 5

\* The non-blank row that follows row r, going round from the last row to
\* the first.
CyclicNext(r) ==
  IF \E q \in NonBlankRows : q > r
  THEN CHOOSE q \in NonBlankRows : q > r /\ \A p \in NonBlankRows : p > r => q <= p
  ELSE CHOOSE q \in NonBlankRows : \A p \in NonBlankRows : q <= p

\* C17: under SCROLLMODE 2 with N > V and the rows unchanged, the first row
\* of a pass completed by loop2(false) is the non-blank row that follows the
\* first row of the pass before it (forced or not).
C17_RowCrawl ==
  [][(SCROLLMODE = 2 /\ N > V /\ passDone' /\ ~lastForced'
        /\ lastShown # <<>> /\ lastShown' # <<>>) =>
      lastShown'[1] = CyclicNext(lastShown[1])]_vars

\* The page of the rows of S: the V lowest of them in increasing order, then
\* blank lines.
Page(S) ==
  [i \in 1..V |-> IF i <= Cardinality(S) THEN NthRow(S, i) ELSE BlankLine]

\* The rows with a higher index than every row of the pass.
RowsAfter(pass) == {r \in NonBlankRows : \A q \in ShownRows(pass) : r > q}

\* C18: under SCROLLMODE 1 with N >= 1 and the rows unchanged, a pass
\* completed by loop2(false) shows at least one non-blank row: the page of
\* the rows after those of the pass before it, or the first page if that
\* pass showed the last non-blank row.
C18_PagePaging ==
  [][(SCROLLMODE = 1 /\ N >= 1 /\ passDone' /\ ~lastForced' /\ lastShown' # <<>>) =>
      /\ ShownRows(lastShown') # {}
      /\ lastShown # <<>> =>
            lastShown' = IF RowsAfter(lastShown) = {} THEN Page(NonBlankRows)
                         ELSE Page(RowsAfter(lastShown))]_vars

\* What does hold under SCROLLMODE 1: after a pass with a blank line in it
\* the next pass shows the first page, and after a pass without one it shows
\* the page of the rows after it, which holds only blank lines if there is
\* no such row.
PagePagingAfterFullPage ==
  [][(SCROLLMODE = 1 /\ N >= 1 /\ passDone' /\ ~lastForced'
        /\ lastShown # <<>> /\ lastShown' # <<>>) =>
      lastShown' = IF \E i \in 1..Len(lastShown) : lastShown[i] = BlankLine
                   THEN Page(NonBlankRows) ELSE Page(RowsAfter(lastShown))]_vars

\* The render and scroll state of the Display.
RenderFields == <<rowFirst, rowNext, slot, bufferPointer, buffer, charIndex,
                  noMoreRowsToDisplay, elapsed>>

\* C13: a loop2(false) call made less than DISPLAY_SCROLL_TIME after the end
\* of the last pass issues no device operation and changes no render or
\* scroll state; while a pass is under way the call is never held back, it
\* issues its one device operation.
C13_Throttle ==
  [][/\ (_displayLoop /\ Throttled) => (ops' = <<>> /\ RenderFields' = RenderFields)
     /\ (displayPc = "idle" /\ InPass) => ~Throttled
     /\ (_displayLoop /\ InPass) => Len(ops') = 1]_vars

\* A loop2(false) call held back after a completed pass.
C13_Witness ==
  /\ lastOp = "loop2"
  /\ ops = <<>>
  /\ Throttled
  /\ lastShown # <<>>
  /\ ~passDone

(***************************************************************************)
(* RingStream: the properties.                                             *)
(***************************************************************************)

\* C1: whenever the overflow flag is set, the next read() returns a byte in
\* 0..255 (not -1) and clears the flag, so that writes are accepted again.
C1_OverflowRecovery ==
  [][(_overflow /\ read) => (lastCall'.ret \in 0..255 /\ ~_overflow')]_vars

\* C8: from an empty, non-overflowed buffer of capacity C the first C-1
\* consecutive write() calls (no read() between them) each return 1 and the
\* C-th returns 0 and sets the overflow flag; at most C-1 bytes can be
\* obtained by read(), and both cursors stay in 0..C-1.
C8_Capacity ==
  /\ streak \in 1..(_len - 1) =>
        lastCall.op = "write" /\ lastCall.ret = 1 /\ ~_overflow
  /\ streak = _len =>
        lastCall.op = "write" /\ lastCall.ret = 0 /\ _overflow
  /\ _pos_read \in 0..(_len - 1)
  /\ _pos_write \in 0..(_len - 1)
  /\ Readable <= _len - 1

\* The C-th write of a streak that began at a cursor position other than 0.
C8_Witness ==
  /\ _len >= 3
  /\ streak = _len
  /\ _pos_read > 0
  /\ _overflow

RECURSIVE ClaimedCountFrom(_, _)
ClaimedCountFrom(p, n) ==
  IF p = _pos_write \/ _buffer[p] = 0 \/ n >= _len THEN n
  ELSE ClaimedCountFrom(Wrap(p + 1), n + 1)

\* C10: count() returns the number of unread bytes before the first zero
\* byte (or all of them if none is zero), never more than the unread bytes.
C10_CountResult ==
  countRet # NoCount =>
    /\ countRet = ClaimedCountFrom(_pos_read, 0)
    /\ countRet <= Readable

\* What read() returns when the fields are f (a value of RingFields).
ReadOf(f) == IF f[3] = f[2] THEN -1 ELSE f[1][f[3]]

\* The message "AB\0" is queued: the three bytes 1, 2, 0 are unread, in that
\* order, from the read cursor on.
QueuedAB0 ==
  /\ Readable >= 3
  /\ _buffer[_pos_read] = 1
  /\ _buffer[Wrap(_pos_read + 1)] = 2
  /\ _buffer[Wrap(Wrap(_pos_read + 1) + 1)] = 0

\* C11: count() changes neither the cursors, the buffer nor the overflow
\* flag, so that the read() that follows it returns what it would have
\* returned without the count(); with "AB\0" queued count() gives 2.
C11_CountNonDestructive ==
  /\ beforeCount # <<>> => beforeCount = RingFields
  /\ (lastCall.op = "read" /\ lastCall.before # <<>>) =>
        lastCall.ret = ReadOf(lastCall.before)
  /\ (countRet # NoCount /\ QueuedAB0) => countRet = 2

\* "AB\0" was queued, count() gave its length and the read() after it gave
\* 'A'.
C11_Witness ==
  /\ lastCall.op = "read"
  /\ lastCall.before # <<>>
  /\ lastCall.ret = 1
  /\ accepted = <<1, 2, 0>>
  /\ got = <<1>>

\* C12: while the overflow flag is set, write() returns 0 and changes
\* nothing; the flag goes down only in a read() that returns a byte.
C12_StickyOverflow ==
  [][/\ (_overflow /\ lastCall'.op = "write" /\ nCalls' = nCalls + 1) =>
          (lastCall'.ret = 0 /\ RingFields' = RingFields)
     /\ (_overflow /\ ~_overflow') =>
          (nCalls' = nCalls + 1 /\ lastCall'.op = "read" /\ lastCall'.ret # -1)]_vars

\* A write() refused because the flag was already up.
C12_Witness ==
  /\ _overflow
  /\ lastCall.op = "write" /\ lastCall.ret = 0
  /\ prevCall.op = "write" /\ prevCall.ret = 0
  /\ _len >= 2

\* C20: count() returns in every reachable state, whatever the buffer holds.
C20_CountTerminates == ringPc = "idle"

====
